---- MODULE Spec2Model ----
(***************************************************************************)
(* Model of personal_finance_dashboard.py: the price lookup with its       *)
(* st.cache_data cache, enrich_portfolio looping over the rows of the      *)
(* uploaded table, and the per-ticker news loop of main.                   *)
(*                                                                         *)
(* Amounts (prices, quantities, buy prices) are small naturals.  The       *)
(* 'Return (%)' value is kept as an exact fraction <<num, den>> in lowest  *)
(* terms, where the program holds the nearest float.                       *)
(***************************************************************************)
EXTENDS Integers, Sequences, FiniteSets, TLC

VARIABLES df, cache, pc, i, prices, returns, values, gains, results, lookups, err,
          expiredSinceCall, expiredSinceOutput,
          mpc, mi, mj, hist_df, news_items, summary, merr, histCache, newsCache

enrichVars == <<pc, i, prices, returns, values, gains, results, lookups, err>>
agingVars == <<expiredSinceCall, expiredSinceOutput>>
mainVars == <<mpc, mi, mj, hist_df, news_items, summary, merr, histCache, newsCache>>
vars == <<df, cache, pc, i, prices, returns, values, gains, results, lookups, err,
          expiredSinceCall, expiredSinceOutput,
          mpc, mi, mj, hist_df, news_items, summary, merr, histCache, newsCache>>

----------------------------------------------------------------------------
(* Bounds of the model *)

MaxRows == 2

Tickers == {"AAPL", "XYZ"}

Quantities == {1, 2}

BuyPrices == {0, 2}

Sectors == {"Tech"}

Prices == {1, 3}

\* Python's None, the result of a lookup that found no usable quote.
None == -1

\* No entry in a st.cache_data cache.
Miss == -2

----------------------------------------------------------------------------
(* Tables *)

Required == <<"Ticker", "Quantity", "Buy Price">>

Computed == <<"Live Price", "Current Value", "Gain/Loss", "Return (%)">>

Range(s) == {s[k] : k \in 1..Len(s)}

ColumnValues(c) ==
    CASE c = "Ticker" -> Tickers
      [] c = "Quantity" -> Quantities
      [] c = "Buy Price" -> BuyPrices
      [] c = "Sector" -> Sectors

\* The column layouts of an uploaded CSV: Ticker, Quantity, Buy Price and
\* Sector, or that layout with one of the first three left out.
Layouts ==
    { <<"Ticker", "Quantity", "Buy Price", "Sector">>,
      <<"Quantity", "Buy Price", "Sector">>,
      <<"Ticker", "Buy Price", "Sector">>,
      <<"Ticker", "Quantity", "Sector">> }

RECURSIVE RowsOver(_)
RowsOver(cols) ==
    IF cols = <<>> THEN { <<>> }
    ELSE { (Head(cols) :> v) @@ r :
             v \in ColumnValues(Head(cols)), r \in RowsOver(Tail(cols)) }

SeqsUpTo(S, n) == UNION { [1..k -> S] : k \in 0..n }

\* load_csv: the table read from the uploaded file, one row per CSV line.
load_csv ==
    UNION { { [columns |-> cols, rows |-> rs] : rs \in SeqsUpTo(RowsOver(cols), MaxRows) } :
            cols \in Layouts }

HasColumn(d, name) == name \in Range(d.columns)

\* A column assignment that rebuilds the rows from the new column alone.
SetColumnOnly(d, name, vals) ==
    [columns |-> IF HasColumn(d, name) THEN d.columns ELSE Append(d.columns, name),
     rows |-> [k \in 1..Len(d.rows) |-> (name :> vals[k])]]

\* df[name] = vals: the column is replaced where it stands, or added last.
SetColumn(d, name, vals) ==
    [columns |-> IF HasColumn(d, name) THEN d.columns ELSE Append(d.columns, name),
     rows |-> [k \in 1..Len(d.rows) |-> (name :> vals[k]) @@ d.rows[k]]]

----------------------------------------------------------------------------
(* get_stock_price *)

\* What the HTTP request of a lookup can come back with.
Responses ==
    { [status |-> s, price |-> 0] :
        s \in {"NetworkError", "NotJson", "NoQuote", "NotNumeric"} }
    \cup { [status |-> "Quote", price |-> p] : p \in Prices }

\* The try block: float(r["Global Quote"]["05. price"]), None on any exception.
ParseQuote(resp) == IF resp.status = "Quote" THEN resp.price ELSE None

\* requests.get(url).json(), which stands outside the try block.
RequestRaises(resp) ==
    CASE resp.status = "NetworkError" -> "ConnectionError"
      [] resp.status = "NotJson" -> "JSONDecodeError"
      [] OTHER -> "none"

\* get_stock_price without its cache: every lookup makes a request.
get_stock_price_uncached(ticker, c, resp) ==
    IF RequestRaises(resp) # "none"
    THEN [raised |-> RequestRaises(resp), value |-> None, cache |-> c]
    ELSE [raised |-> "none", value |-> ParseQuote(resp), cache |-> c]

\* A cached value is returned without a request; a returned value (None
\* included) is stored, an exception is not.
get_stock_price(ticker, c, resp) ==
    IF c[ticker] # Miss
    THEN [raised |-> "none", value |-> c[ticker], cache |-> c]
    ELSE IF RequestRaises(resp) # "none"
    THEN [raised |-> RequestRaises(resp), value |-> None, cache |-> c]
    ELSE [raised |-> "none", value |-> ParseQuote(resp),
          cache |-> [c EXCEPT ![ticker] = ParseQuote(resp)]]

----------------------------------------------------------------------------
(* enrich_portfolio *)

Abs(x) == IF x < 0 THEN -x ELSE x

RECURSIVE Gcd(_, _)
Gcd(a, b) == IF b = 0 THEN a ELSE Gcd(b, a % b)

\* The quotient n / d (d # 0) as a fraction in lowest terms, den > 0.
Frac(n, d) ==
    LET g == Gcd(Abs(n), Abs(d))
        s == IF d < 0 THEN -1 ELSE 1
    IN  << (s * n) \div g, (s * d) \div g >>

\* The lookup result used as it comes, without "or 0".
EffectivePriceAsIs(result) == result

\* get_stock_price(...) or 0
EffectivePrice(result) == IF result = None THEN 0 ELSE result

\* A value that carries the previous row's value along (a running total).
CurrentValueRunning(price, quantity) ==
    price * quantity + (IF values = <<>> THEN 0 ELSE values[Len(values)])

CurrentValue(price, quantity) == price * quantity

GainLoss(price, buy, quantity) == (price - buy) * quantity

\* The division without the guard on a zero buy price: n/0, not a number.
ReturnPctUnguarded(price, buy) ==
    IF buy # 0 THEN Frac((price - buy) * 100, buy) ELSE <<(price - buy) * 100, 0>>

\* The return as a plain fraction, without "* 100".
ReturnFraction(price, buy) == IF buy # 0 THEN Frac(price - buy, buy) ELSE <<0, 1>>

\* (price - buy) / buy * 100 if buy else 0
ReturnPct(price, buy) == IF buy # 0 THEN Frac((price - buy) * 100, buy) ELSE <<0, 1>>

KeyError(name) == "KeyError: " \o name

\* prices, returns, values, gains = [], [], [], []
Call ==
    /\ pc \in {"idle", "done", "raised"}
    /\ mpc = "idle"
    /\ pc' = "loop"
    /\ i' = 1
    /\ prices' = <<>> /\ returns' = <<>> /\ values' = <<>> /\ gains' = <<>>
    /\ results' = <<>>
    /\ lookups' = 0
    /\ err' = "none"
    /\ expiredSinceCall' = FALSE
    /\ UNCHANGED <<df, cache, expiredSinceOutput, mainVars>>

\* An exception leaves enrich_portfolio: its locals are gone, df is as it was.
Raise(e) ==
    /\ pc' = "raised"
    /\ err' = e
    /\ i' = 1
    /\ prices' = <<>> /\ returns' = <<>> /\ values' = <<>> /\ gains' = <<>>
    /\ results' = <<>>
    /\ UNCHANGED df

\* One iteration of the loop over df.iterrows().
RowStep ==
    /\ pc = "loop"
    /\ i <= Len(df.rows)
    /\ LET row == df.rows[i] IN
       IF "Ticker" \notin DOMAIN row
       THEN Raise(KeyError("Ticker")) /\ UNCHANGED <<cache, lookups>>
       ELSE \E resp \in Responses :
            LET got == get_stock_price(row["Ticker"], cache, resp) IN
            /\ lookups' = lookups + 1
            /\ cache' = got.cache
            /\ IF got.raised # "none"
               THEN Raise(got.raised)
               ELSE IF "Quantity" \notin DOMAIN row
               THEN Raise(KeyError("Quantity"))
               ELSE IF "Buy Price" \notin DOMAIN row
               THEN Raise(KeyError("Buy Price"))
               ELSE LET price == EffectivePrice(got.value) IN
                    /\ results' = Append(results, [ticker |-> row["Ticker"], value |-> got.value])
                    /\ returns' = Append(returns, ReturnPct(price, row["Buy Price"]))
                    /\ prices' = Append(prices, price)
                    /\ values' = Append(values, CurrentValue(price, row["Quantity"]))
                    /\ gains' = Append(gains, GainLoss(price, row["Buy Price"], row["Quantity"]))
                    /\ i' = i + 1
                    /\ UNCHANGED <<df, pc, err>>
    /\ expiredSinceCall' = (pc' = "loop" /\ expiredSinceCall)
    /\ UNCHANGED <<expiredSinceOutput, mainVars>>

\* The four column assignments and the return.
Assign ==
    /\ pc = "loop"
    /\ i > Len(df.rows)
    /\ df' = SetColumn(SetColumn(SetColumn(SetColumn(df,
                "Live Price", prices), "Current Value", values),
                "Gain/Loss", gains), "Return (%)", returns)
    /\ pc' = "done"
    /\ expiredSinceOutput' = expiredSinceCall
    /\ expiredSinceCall' = FALSE
    /\ UNCHANGED <<cache, i, prices, returns, values, gains, results, lookups,
                   err, mainVars>>

\* ttl=600: the cached price of a ticker is dropped once it is 600 s old.
\* expiredSinceCall: an entry was dropped during the call in progress;
\* expiredSinceOutput: an entry was dropped since the start of the call that
\* wrote the computed columns df holds (FALSE while df holds none).
Expire ==
    \E t \in Tickers :
      /\ cache[t] # Miss
      /\ cache' = [cache EXCEPT ![t] = Miss]
      /\ expiredSinceCall' = (pc = "loop")
      /\ expiredSinceOutput' = HasColumn(df, "Live Price")
      /\ UNCHANGED <<df, enrichVars, mainVars>>

----------------------------------------------------------------------------
(* main: the news loop over df['Ticker'] *)

NoEntry == [hit |-> FALSE, value |-> <<>>]

HistResponses == {"NetworkError", "NotJson", "NoSeries", "Series"}

\* An article of the news API: its description is a text, is left out, or is null.
Articles == { [title |-> "headline", description |-> d] : d \in {"text", "absent", "null"} }

MaxNews == 1

NewsResponses ==
    { [status |-> s, articles |-> <<>>] : s \in {"NetworkError", "NotJson", "NoArticles"} }
    \cup { [status |-> "Articles", articles |-> a] : a \in SeqsUpTo(Articles, MaxNews) }

\* requests.get(url).json() raises; an empty time series leaves a DataFrame
\* without columns, on which sort_values("Date") raises KeyError.
get_historical_prices(ticker, c, resp) ==
    IF c[ticker].hit
    THEN [raised |-> "none", value |-> c[ticker].value, cache |-> c]
    ELSE CASE resp = "NetworkError" -> [raised |-> "ConnectionError", value |-> <<>>, cache |-> c]
           [] resp = "NotJson" -> [raised |-> "JSONDecodeError", value |-> <<>>, cache |-> c]
           [] resp = "NoSeries" -> [raised |-> KeyError("Date"), value |-> <<>>, cache |-> c]
           [] OTHER -> [raised |-> "none", value |-> <<"Close">>,
                        cache |-> [c EXCEPT ![ticker] = [hit |-> TRUE, value |-> <<"Close">>]]]

\* r.get("articles", [])
get_news(ticker, c, resp) ==
    IF c[ticker].hit
    THEN [raised |-> "none", value |-> c[ticker].value, cache |-> c]
    ELSE CASE resp.status = "NetworkError" -> [raised |-> "ConnectionError", value |-> <<>>, cache |-> c]
           [] resp.status = "NotJson" -> [raised |-> "JSONDecodeError", value |-> <<>>, cache |-> c]
           [] OTHER -> [raised |-> "none", value |-> resp.articles,
                        cache |-> [c EXCEPT ![ticker] = [hit |-> TRUE, value |-> resp.articles]]]

\* The completion's text, or the fixed string when the call raises.
summarize_news(text, completes) ==
    IF completes THEN "summary: " \o text ELSE "Summary unavailable."

\* item['title'] + '. ' + item.get("description", ""): a null description
\* cannot be concatenated.
NewsText(item) ==
    CASE item.description = "null" -> "TypeError"
      [] item.description = "absent" -> item.title \o ". "
      [] OTHER -> item.title \o ". " \o item.description

Abort(e) ==
    /\ mpc' = "aborted"
    /\ merr' = e

\* main up to enrich_portfolio: the uploaded file is loaded and enriched.
MainCall ==
    /\ pc = "idle"
    /\ Call

\* An exception of enrich_portfolio ends main.
MainRaised ==
    /\ pc = "raised"
    /\ mpc = "idle"
    /\ Abort(err)
    /\ UNCHANGED <<df, cache, enrichVars, agingVars, mi, mj, hist_df, news_items,
                   summary, histCache, newsCache>>

\* for ticker in df['Ticker']:
MainLoop ==
    /\ pc = "done"
    /\ mpc = "idle"
    /\ IF ~HasColumn(df, "Ticker")
       THEN Abort(KeyError("Ticker"))
       ELSE /\ mpc' = IF Len(df.rows) = 0 THEN "finished" ELSE "hist"
            /\ merr' = "none"
    /\ mi' = 1
    /\ UNCHANGED <<df, cache, enrichVars, agingVars, mj, hist_df, news_items,
                   summary, histCache, newsCache>>

\* hist_df = get_historical_prices(ticker) and the chart.
HistStep ==
    /\ mpc = "hist"
    /\ \E resp \in HistResponses :
         LET got == get_historical_prices(df.rows[mi]["Ticker"], histCache, resp) IN
         /\ histCache' = got.cache
         /\ hist_df' = got.value
         /\ IF got.raised # "none"
            THEN Abort(got.raised)
            ELSE mpc' = "news" /\ UNCHANGED merr
    /\ UNCHANGED <<df, cache, enrichVars, agingVars, mi, mj, news_items, summary, newsCache>>

\* news_items = get_news(ticker), st.json, "No recent news found."
NewsStep ==
    /\ mpc = "news"
    /\ \E resp \in NewsResponses :
         LET got == get_news(df.rows[mi]["Ticker"], newsCache, resp) IN
         /\ newsCache' = got.cache
         /\ news_items' = got.value
         /\ IF got.raised # "none"
            THEN Abort(got.raised)
            ELSE mpc' = "items" /\ UNCHANGED merr
    /\ mj' = 1
    /\ UNCHANGED <<df, cache, enrichVars, agingVars, mi, hist_df, summary, histCache>>

\* One article: title, date, link, summary.
ItemStep ==
    /\ mpc = "items"
    /\ mj <= Len(news_items)
    /\ LET text == NewsText(news_items[mj]) IN
       IF text = "TypeError"
       THEN Abort("TypeError") /\ UNCHANGED <<summary, mj>>
       ELSE \E completes \in BOOLEAN :
              /\ summary' = summarize_news(text, completes)
              /\ mj' = mj + 1
              /\ UNCHANGED <<mpc, merr>>
    /\ UNCHANGED <<df, cache, enrichVars, agingVars, mi, hist_df, news_items,
                   histCache, newsCache>>

\* The articles of this ticker are done: on to the next ticker.
NextTicker ==
    /\ mpc = "items"
    /\ mj > Len(news_items)
    /\ mi' = mi + 1
    /\ mpc' = IF mi < Len(df.rows) THEN "hist" ELSE "finished"
    /\ UNCHANGED <<df, cache, enrichVars, agingVars, mj, hist_df, news_items,
                   summary, merr, histCache, newsCache>>

\* ttl=3600: the cached history of a ticker is dropped once it is an hour old.
ExpireHist ==
    \E t \in Tickers :
      /\ histCache[t].hit
      /\ histCache' = [histCache EXCEPT ![t] = NoEntry]
      /\ UNCHANGED <<df, cache, enrichVars, agingVars, mpc, mi, mj, hist_df,
                     news_items, summary, merr, newsCache>>

\* ttl=1800: the cached articles of a ticker are dropped once 1800 s old.
ExpireNews ==
    \E t \in Tickers :
      /\ newsCache[t].hit
      /\ newsCache' = [newsCache EXCEPT ![t] = NoEntry]
      /\ UNCHANGED <<df, cache, enrichVars, agingVars, mpc, mi, mj, hist_df,
                     news_items, summary, merr, histCache>>

----------------------------------------------------------------------------

Init ==
    /\ df \in load_csv
    /\ cache = [t \in Tickers |-> Miss]
    /\ pc = "idle"
    /\ i = 1
    /\ prices = <<>> /\ returns = <<>> /\ values = <<>> /\ gains = <<>>
    /\ results = <<>>
    /\ lookups = 0
    /\ err = "none"
    /\ expiredSinceCall = FALSE
    /\ expiredSinceOutput = FALSE
    /\ mpc = "idle"
    /\ mi = 1
    /\ mj = 1
    /\ hist_df = <<>>
    /\ news_items = <<>>
    /\ summary = ""
    /\ merr = "none"
    /\ histCache = [t \in Tickers |-> NoEntry]
    /\ newsCache = [t \in Tickers |-> NoEntry]

Next == Call \/ RowStep \/ Assign \/ Expire

\* enrich_portfolio called on the uploaded table, and again on the table it
\* returned, while cached prices age.
Spec == Init /\ [][Next]_vars

NextMain ==
    \/ MainCall \/ RowStep \/ Assign \/ Expire
    \/ MainRaised \/ MainLoop \/ HistStep \/ NewsStep \/ ItemStep \/ NextTicker
    \/ ExpireHist \/ ExpireNews

\* One run of main on an uploaded file.
SpecMain == Init /\ [][NextMain]_vars

----------------------------------------------------------------------------
(* Properties *)

Enriched(d) == \A c \in Range(Computed) : HasColumn(d, c)

MissingColumns == { c \in Range(Required) : ~HasColumn(df, c) }

RequestErrors == {"ConnectionError", "JSONDecodeError"}

Rows == 1..Len(df.rows)

\* The price a lookup result stands for: 0 when there is no usable quote.
PriceOf(result) == IF result.value = None THEN 0 ELSE result.value

\* C1: every failure of the price lookup is caught inside get_stock_price and
\* becomes None; no exception of the HTTP request or of decoding its body
\* reaches enrich_portfolio.
C1_LookupNeverRaises == err \notin RequestErrors

\* C2: when a row's price lookup fails, enrich_portfolio does not raise: for a
\* table with the required columns the call ends by returning, with a lookup
\* made for every row and every row holding its own computed values.
C2_RowIsolation ==
    (pc \in {"done", "raised"} /\ MissingColumns = {}) =>
        /\ pc = "done"
        /\ lookups = Len(df.rows)
        /\ \A k \in Rows :
             /\ df.rows[k]["Live Price"] = PriceOf(results[k])
             /\ df.rows[k]["Current Value"] = PriceOf(results[k]) * df.rows[k]["Quantity"]

\* C3: a row whose lookup returned no usable quote is computed with price 0:
\* Live Price 0, Current Value 0, Gain/Loss = (0 - Buy Price) * Quantity, and
\* the return of price 0 (a total loss, -100, when Buy Price is not 0).
C3_ZeroPricePolicy ==
    /\ \A k \in 1..Len(results) :
         results[k].value = None =>
           /\ prices[k] = 0
           /\ values[k] = 0
           /\ gains[k] = (0 - df.rows[k]["Buy Price"]) * df.rows[k]["Quantity"]
           /\ returns[k][1] * df.rows[k]["Buy Price"]
                = (0 - df.rows[k]["Buy Price"]) * 100 * returns[k][2]
           /\ df.rows[k]["Buy Price"] # 0 => returns[k] = <<-100, 1>>
    /\ pc = "done" =>
         \A k \in Rows :
           results[k].value = None =>
             /\ df.rows[k]["Live Price"] = 0
             /\ df.rows[k]["Current Value"] = 0
             /\ df.rows[k]["Gain/Loss"] = (0 - df.rows[k]["Buy Price"]) * df.rows[k]["Quantity"]
             /\ df.rows[k]["Buy Price"] # 0 => df.rows[k]["Return (%)"] = <<-100, 1>>

C3_Witness ==
    /\ pc = "done"
    /\ \E k \in Rows : results[k].value = None /\ df.rows[k]["Buy Price"] # 0

\* C4: with a required column missing the call fails with an error naming the
\* missing column, before any price lookup, and adds no computed column.
C4_SchemaValidation ==
    MissingColumns # {} =>
        /\ pc # "done"
        /\ lookups = 0
        /\ \A c \in Range(Computed) : ~HasColumn(df, c)
        /\ pc = "raised" => err \in { KeyError(c) : c \in MissingColumns }

\* C5: a row whose Buy Price is 0 gets the return 0, a proper number (no
\* division by zero), whatever its lookup returned, a price or None.
C5_BuyPriceClamp ==
    /\ err # "ZeroDivisionError"
    /\ \A k \in 1..Len(returns) :
         /\ returns[k][2] # 0
         /\ df.rows[k]["Buy Price"] = 0 => returns[k] = <<0, 1>>
    /\ Enriched(df) =>
         \A k \in Rows :
           /\ df.rows[k]["Return (%)"][2] # 0
           /\ df.rows[k]["Buy Price"] = 0 => df.rows[k]["Return (%)"] = <<0, 1>>

C5_Witness ==
    /\ pc = "done"
    /\ \E k \in Rows : df.rows[k]["Buy Price"] = 0 /\ results[k].value = None
    /\ \E k \in Rows : df.rows[k]["Buy Price"] = 0 /\ results[k].value \in Prices

\* C6 as stated: for a row with non-zero Buy Price the stored return is the
\* fraction (CurrentPrice - BuyPrice) / BuyPrice.
C6_ReturnIsFraction ==
    pc = "done" =>
        \A k \in Rows :
          df.rows[k]["Buy Price"] # 0 =>
            df.rows[k]["Return (%)"][1] * df.rows[k]["Buy Price"]
              = (PriceOf(results[k]) - df.rows[k]["Buy Price"]) * df.rows[k]["Return (%)"][2]

\* C6 amended: for a row with non-zero Buy Price the stored 'Return (%)' is
\* the percentage (CurrentPrice - BuyPrice) / BuyPrice * 100, CurrentPrice
\* being the effective price of the row's lookup.
C6_ReturnIsPercent ==
    pc = "done" =>
        \A k \in Rows :
          df.rows[k]["Buy Price"] # 0 =>
            /\ df.rows[k]["Return (%)"][2] > 0
            /\ df.rows[k]["Return (%)"][1] * df.rows[k]["Buy Price"]
                 = (PriceOf(results[k]) - df.rows[k]["Buy Price"]) * 100
                     * df.rows[k]["Return (%)"][2]

C6_Witness ==
    /\ pc = "done"
    /\ \E k \in Rows :
         /\ df.rows[k]["Buy Price"] # 0
         /\ results[k].value \in Prices
         /\ results[k].value # df.rows[k]["Buy Price"]

IsInput(c) == c \notin Range(Computed)

\* C7: no step changes the number or order of the rows, or any value or the
\* order of the input columns; the only change is that the four computed
\* columns are added or replaced, row k receiving the k-th computed values.
C7_Frame ==
    [][ /\ \/ df' = df
           \/ /\ Len(df'.rows) = Len(df.rows)
              /\ SelectSeq(df'.columns, IsInput) = SelectSeq(df.columns, IsInput)
              /\ Range(df.columns) \subseteq Range(df'.columns)
              /\ \A k \in Rows :
                   /\ DOMAIN df.rows[k] \subseteq DOMAIN df'.rows[k]
                   /\ DOMAIN df'.rows[k] \subseteq DOMAIN df.rows[k] \cup Range(Computed)
                   /\ \A c \in DOMAIN df.rows[k] :
                        IsInput(c) => df'.rows[k][c] = df.rows[k][c]
        /\ (pc = "loop" /\ pc' = "done") =>
             /\ Enriched(df')
             /\ \A k \in Rows :
                  /\ df'.rows[k]["Live Price"] = prices[k]
                  /\ df'.rows[k]["Current Value"] = values[k]
                  /\ df'.rows[k]["Gain/Loss"] = gains[k]
                  /\ df'.rows[k]["Return (%)"] = returns[k]
      ]_vars

C7_Witness ==
    /\ pc = "done"
    /\ Len(df.rows) >= 2
    /\ df.rows[1] # df.rows[2]
    /\ df.rows[1]["Live Price"] # df.rows[2]["Live Price"]

\* C8 as stated: a call on an already enriched table always writes the
\* output the table already holds.
C8_Idempotent ==
    [][ (Enriched(df) /\ pc = "loop" /\ pc' = "done") => df' = df ]_vars

\* C8 amended: a call on an already enriched table, made while no cached
\* price has expired since the start of the call that produced that output,
\* does not raise and writes the same output again.
C8_IdempotentWhileCached ==
    [][ (Enriched(df) /\ pc = "loop" /\ ~expiredSinceOutput) =>
          /\ pc' # "raised"
          /\ pc' = "done" => df' = df
      ]_vars

C8_Witness ==
    /\ Enriched(df)
    /\ pc = "loop"
    /\ ~expiredSinceOutput
    /\ Len(df.rows) >= 2
    /\ i > Len(df.rows)
    /\ \E k \in Rows : results[k].value \in Prices

\* C9: each row's computed values are a function of that row's own Ticker,
\* Quantity and Buy Price and of the result of the lookup made for its
\* Ticker: rows with the same Ticker stay separate rows, and rows that agree
\* on Quantity, Buy Price and lookup result agree on the computed values
\* wherever they stand in the table.
C9_RowIndependence ==
    pc = "done" =>
      /\ Len(results) = Len(df.rows)
      /\ \A k \in Rows :
           LET row == df.rows[k]
               p == PriceOf(results[k])
           IN /\ results[k].ticker = row["Ticker"]
              /\ row["Live Price"] = p
              /\ row["Current Value"] = p * row["Quantity"]
              /\ row["Gain/Loss"] = (p - row["Buy Price"]) * row["Quantity"]
              /\ row["Return (%)"] =
                   IF row["Buy Price"] = 0 THEN <<0, 1>>
                   ELSE Frac((p - row["Buy Price"]) * 100, row["Buy Price"])
      /\ \A j, k \in Rows :
           ( /\ df.rows[j]["Quantity"] = df.rows[k]["Quantity"]
             /\ df.rows[j]["Buy Price"] = df.rows[k]["Buy Price"]
             /\ results[j].value = results[k].value )
           => \A c \in Range(Computed) : df.rows[j][c] = df.rows[k][c]

C9_Witness ==
    /\ pc = "done"
    /\ \E j, k \in Rows :
         /\ j < k
         /\ df.rows[j]["Ticker"] = df.rows[k]["Ticker"]
         /\ df.rows[j]["Quantity"] # df.rows[k]["Quantity"]
         /\ df.rows[j]["Current Value"] # df.rows[k]["Current Value"]

\* C10: once the table is enriched, an unavailable result of the historical
\* price lookup, of the news lookup or of the summarization never aborts the
\* loop over the tickers; only an exception of an HTTP request itself does.
C10_CollaboratorTolerance ==
    (pc = "done" /\ HasColumn(df, "Ticker") /\ mpc = "aborted") => merr \in RequestErrors

====
